---- MODULE Spec2Model ----
(***************************************************************************)
(* Model of the PortfolioAI dashboard (app.py), its persistence stubs      *)
(* (db_interface.py) and its notification helper (alert_sender.py).        *)
(*                                                                         *)
(* One Streamlit script run handles one widget event.  A run that makes no *)
(* external call is one action; a run that makes one is two: the handler   *)
(* up to its synchronous call, and the handler from the return of the      *)
(* call, whose answer is an input of that second action.                   *)
(* Python text is a sequence of one-character strings, so that upper(),    *)
(* strip(), split() and substring search are computed, not assumed.        *)
(***************************************************************************)
EXTENDS Integers, Sequences, FiniteSets, TLC

VARIABLES
    parsed_profile,        \* st.session_state.parsed_profile
    interview_settings,    \* st.session_state.interview_settings (role, type, status)
    chat_history,          \* st.session_state.chat_history
    chat_session,          \* st.session_state.chat_session
    final_report_display,  \* st.session_state.final_report_display
    lastAction,            \* the widget event handled by the last script run
    lastInput,             \* the text input that run's handler read ("" if none)
    lastResponse,          \* what the external capability answered in that run
    lastCalls,             \* number of external generative calls made in that run
    inFlight,              \* external calls of the session issued and not yet returned
    pending,               \* the handler waiting in its external call, with the inputs it read
    ui,                    \* what that run displayed
    uncaught,              \* that run ended by an exception nobody caught
    persistLog,            \* calls handed to the persistence collaborator by app.py
    client,                \* the cached Gemini client (app.py 67)
    API_KEY,               \* os.getenv("GEMINI_API_KEY") (app.py 53)
    SUPABASE_URL,          \* db_interface.py 11
    SUPABASE_SERVICE_KEY,  \* db_interface.py 12
    supabase,              \* db_interface.py 15-25, the global client
    dbCall,                \* the last call of a db_interface function and its outcome
    RESEND_API_KEY,        \* alert_sender.py 8
    alertCall,             \* the last call of send_job_alert_email and its outcome
    profile,               \* the script variable of app.py 239, 250, 265; None in a run that did not bind it
    docx_bytes,            \* text of generate_docx_v2(profile), app.py 280; None in a run that did not reach it
    pdf_bytes,             \* text of generate_pdf_v2(profile), app.py 291; None in a run that did not reach it
    docx_v1                \* text returned by the last call of document_assets.generate_docx

sessionVars == <<parsed_profile, interview_settings, chat_history, chat_session,
                 final_report_display, lastAction, lastInput, lastResponse, lastCalls,
                 inFlight, pending, ui, uncaught, persistLog, client, API_KEY>>
dbVars == <<SUPABASE_URL, SUPABASE_SERVICE_KEY, supabase, dbCall>>
alertVars == <<RESEND_API_KEY, alertCall>>
renderVars == <<profile, docx_bytes, pdf_bytes, docx_v1>>

-----------------------------------------------------------------------------
(* Bounds *)

MaxTurns == 4        \* chat_history is not extended beyond this many turns
MaxExperience == 1   \* experience entries in a generated payload
MaxJobs == 2         \* job items handed to send_job_alert_email
MaxNameLen == 2      \* characters of a generated name or company

-----------------------------------------------------------------------------
(* Python values *)

None == [t |-> "None"]
JNull == [t |-> "null"]
JStr(s) == [t |-> "str", v |-> s]
JInt(n) == [t |-> "int", v |-> n]
JList(xs) == [t |-> "list", v |-> xs]
JObj(f) == [t |-> "obj", v |-> f]
Raised == [t |-> "raise"]

IsNone(x) == x.t = "None"

AliceSmith == <<"A", "l", "i", "c", "e", " ", "S", "m", "i", "t", "h">>
Bob == <<"B", "o", "b">>
AliceEmail == <<"a", "@", "x">>
Acme == <<"A", "c", "m", "e">>
Engineer == <<"E", "n", "g">>
Years == <<"2", "0", "1", "5", "-", "2", "0", "2", "5">>
SummaryText == <<" ", "b", "u", "i", "l", "t", "\n", " ", "r", "a", "n", " ">>
Python == <<"P", "y">>
SQL == <<"S", "Q", "L">>
React == <<"R", "e">>

-----------------------------------------------------------------------------
(* Schema definitions: app.py 25-41 *)

WorkExperienceFields == {"title", "company", "years", "summary"}
ResumeProfileFields == {"name", "email", "summary", "skills", "experience"}
OptimizationReportFields == {"match_score", "keyword_gaps", "suggestions"}

IsStrValue(x) == x.t = "str"
IsStrList(x) == x.t = "list" /\ \A i \in 1..Len(x.v) : IsStrValue(x.v[i])

\* WorkExperience(**d): every field is required and is a str
WorkExperienceValid(x) ==
    /\ x.t = "obj"
    /\ \A f \in WorkExperienceFields : f \in DOMAIN x.v /\ IsStrValue(x.v[f])

ResumeProfileValidStrictSkills(x) ==
    /\ x.t = "obj"
    /\ \A f \in {"name", "email", "summary"} : f \in DOMAIN x.v /\ IsStrValue(x.v[f])
    /\ "skills" \in DOMAIN x.v /\ IsStrList(x.v["skills"])
    /\ Len(x.v["skills"].v) >= 8 /\ Len(x.v["skills"].v) <= 12
    /\ "experience" \in DOMAIN x.v
    /\ x.v["experience"].t = "list"
    /\ \A i \in 1..Len(x.v["experience"].v) : WorkExperienceValid(x.v["experience"].v[i])

\* ResumeProfile(**d): every field is required; skills is List[str] and
\* experience is List[WorkExperience], with no bound on either length
ResumeProfileValid(x) ==
    /\ x.t = "obj"
    /\ \A f \in {"name", "email", "summary"} : f \in DOMAIN x.v /\ IsStrValue(x.v[f])
    /\ "skills" \in DOMAIN x.v /\ IsStrList(x.v["skills"])
    /\ "experience" \in DOMAIN x.v
    /\ x.v["experience"].t = "list"
    /\ \A i \in 1..Len(x.v["experience"].v) : WorkExperienceValid(x.v["experience"].v[i])

\* The model object built from a payload: the declared fields, by value
Plain(x) ==
    IF x.t = "list" THEN [i \in 1..Len(x.v) |->
            IF x.v[i].t = "obj"
            THEN [f \in (DOMAIN x.v[i].v) \cap WorkExperienceFields |->
                    IF x.v[i].v[f].t \in {"str", "int"} THEN x.v[i].v[f].v ELSE None]
            ELSE IF x.v[i].t \in {"str", "int"} THEN x.v[i].v ELSE None]
    ELSE IF x.t \in {"str", "int"} THEN x.v
    ELSE None

ResumeProfile(x) ==
    [t |-> "ResumeProfile",
     v |-> [f \in (DOMAIN x.v) \cap ResumeProfileFields |-> Plain(x.v[f])]]

-----------------------------------------------------------------------------
(* Answers of the external generative capability to a resume extraction *)

Absent == [t |-> "absent"]

FullEntry ==
    JObj([title |-> JStr(Engineer), company |-> JStr(Acme),
          years |-> JStr(Years), summary |-> JStr(SummaryText)])

EntryWithout(S) == JObj([f \in WorkExperienceFields \ S |-> FullEntry.v[f]])

ExperienceEntries ==
    {EntryWithout(S) : S \in {{}} \cup {{f} : f \in WorkExperienceFields}
                                \cup {WorkExperienceFields}}
    \cup {JObj([FullEntry.v EXCEPT !["company"] = JNull])}

\* experience lists of at most MaxExperience entries: complete entries
\* followed by one entry of any shape
ExperienceLists ==
    {<<>>} \cup {[i \in 1..n |-> IF i < n THEN FullEntry ELSE e] :
                    n \in 1..MaxExperience, e \in ExperienceEntries}

\* none, three, or thirteen skills: all outside the 8 to 12 the field asks for
SkillLists == {<<>>, <<JStr(Python), JStr(SQL), JStr(React)>>, [i \in 1..13 |-> JStr(SQL)]}

FullResume ==
    [name |-> JStr(AliceSmith), email |-> JStr(AliceEmail), summary |-> JStr(SummaryText),
     skills |-> JList(<<JStr(Python), JStr(SQL), JStr(React)>>),
     experience |-> JList(<<FullEntry>>)]

\* a complete object with any set of fields left out, or with its skills
\* or its experience replaced
ResumeObjects ==
    {JObj([f \in ResumeProfileFields \ S |-> FullResume[f]]) : S \in SUBSET ResumeProfileFields}
    \cup {JObj([FullResume EXCEPT !["skills"] = JList(l)]) : l \in SkillLists}
    \cup {JObj([FullResume EXCEPT !["experience"] = x]) :
            x \in {JList(l) : l \in ExperienceLists} \cup {JNull}}

\* the call raised, or response.text was JSON null, [] or an object
ResumeResponses == {Raised, JNull, JList(<<>>)} \cup ResumeObjects

\* response.text of a free-text call: None, "" or a text
Letter == <<"t", "e", "x", "t">>
TextResponses == {Raised, None, JStr(<<>>), JStr(Letter)}

\* send_message of the chat session: raised, or a reply
Question == <<"Q", "?">>
ChatResponses == {Raised, JStr(Question)}

\* answers to the optimization request
Scores == {-1, 0, 50, 100, 101}
NA == <<"N", "/", "A">>
Gap == <<"S", "Q", "L">>
Tip == <<"t", "i", "p">>

OptimizationOptions(f) ==
    {Absent} \cup
    CASE f = "match_score" -> {JInt(n) : n \in Scores}
      [] f = "keyword_gaps" -> {JList(<<>>), JList(<<JStr(Gap)>>)}
      [] f = "suggestions" -> {JList(<<JStr(Tip)>>)}

OptimizationObjects ==
    {JObj([f \in {g \in OptimizationReportFields : c[g] # Absent} |-> c[f]]) :
        c \in {d \in [OptimizationReportFields ->
                        UNION {OptimizationOptions(f) : f \in OptimizationReportFields}] :
                    \A f \in OptimizationReportFields : d[f] \in OptimizationOptions(f)}}

OptimizationResponses == {Raised, JNull} \cup OptimizationObjects

NoResponse == [t |-> "no call"]

-----------------------------------------------------------------------------
(* Core AI functions: app.py 150-193 *)

\* lines 158, 168, 178, 190 (generate_content) and 384, 401 (send_message):
\* every core function issues its request once, inside try when it has one,
\* and its except branch returns without asking again
ExternalCallsRetry(fn, resp) == IF resp.t = "raise" THEN 2 ELSE 1

ExternalCalls(fn, resp) == 1

parse_resume_to_json_with_defaults(resp) ==
    LET filled == JObj([f \in ResumeProfileFields |->
                    IF f \in DOMAIN resp.v THEN resp.v[f]
                    ELSE IF f \in {"skills", "experience"} THEN JList(<<>>) ELSE JStr(<<>>)])
    IN  IF resp.t = "raise" THEN None
        ELSE IF resp.t = "obj" /\ ResumeProfileValid(filled) THEN ResumeProfile(filled)
        ELSE None

\* lines 150-161: one generate_content call; any exception, a failed
\* json.loads or a failed ResumeProfile(**...) gives None
parse_resume_to_json(resp) ==
    IF resp.t = "raise" THEN None
    ELSE IF ResumeProfileValid(resp) THEN ResumeProfile(resp)
    ELSE None

\* lines 163-171: response.text, or None when the call raised
generate_cover_letter(resp) == IF resp.t = "raise" THEN None ELSE resp

\* lines 173-181: json.loads(response.text) as it is, or None when the
\* call or json.loads raised; OptimizationReport is never instantiated
generate_optimization_report(resp) == IF resp.t = "raise" THEN None ELSE resp

FailedReport == <<"F", "a", "i", "l", "e", "d">>

\* lines 183-193: response.text, or the fallback text when the call raised
generate_final_feedback(resp) == IF resp.t = "raise" THEN JStr(FailedReport) ELSE resp

-----------------------------------------------------------------------------
(* Python text operations used by the renderers *)

LowerCase == <<"a", "b", "c", "d", "e", "f", "g", "h", "i", "j", "k", "l", "m", "n", "o", "p", "q", "r", "s", "t", "u", "v", "w", "x", "y", "z">>
UpperCase == <<"A", "B", "C", "D", "E", "F", "G", "H", "I", "J", "K", "L", "M", "N", "O", "P", "Q", "R", "S", "T", "U", "V", "W", "X", "Y", "Z">>

\* str.upper() on one character
UpperChar(c) ==
    IF \E i \in 1..26 : LowerCase[i] = c
    THEN UpperCase[CHOOSE i \in 1..26 : LowerCase[i] = c]
    ELSE c

Upper(s) == [i \in 1..Len(s) |-> UpperChar(s[i])]

Whitespace == {" ", "\n", "\t"}

\* str.strip()
Strip(s) ==
    LET keep == {i \in 1..Len(s) : s[i] \notin Whitespace}
    IN  IF keep = {} THEN <<>>
        ELSE SubSeq(s, CHOOSE i \in keep : \A j \in keep : i <= j,
                       CHOOSE i \in keep : \A j \in keep : i >= j)

\* str.split(sep) for a one-character separator
RECURSIVE Split(_, _)
Split(s, sep) ==
    IF \A i \in 1..Len(s) : s[i] # sep THEN <<s>>
    ELSE LET k == CHOOSE i \in 1..Len(s) : s[i] = sep /\ \A j \in 1..(i - 1) : s[j] # sep
         IN  <<SubSeq(s, 1, k - 1)>> \o Split(SubSeq(s, k + 1, Len(s)), sep)

\* sep.join(parts)
RECURSIVE Join(_, _)
Join(parts, sep) ==
    IF Len(parts) = 0 THEN <<>>
    ELSE IF Len(parts) = 1 THEN parts[1]
    ELSE parts[1] \o sep \o Join(Tail(parts), sep)

\* str.replace(c, '')
Remove(s, c) == SelectSeq(s, LAMBDA x : x # c)

NonEmpty(parts) == SelectSeq(parts, LAMBDA x : Len(x) > 0)

\* the stripped, non-empty lines of a text
Lines(s) == NonEmpty([i \in 1..Len(Split(s, "\n")) |-> Strip(Split(s, "\n")[i])])

\* str.split() without argument: the words between runs of white space
Words(s) ==
    NonEmpty(Split([i \in 1..Len(s) |-> IF s[i] \in Whitespace THEN " " ELSE s[i]], " "))

\* the text a ReportLab Paragraph sets: its words, one space apart
ParagraphText(s) == Join(Words(s), <<" ">>)

\* `sub in text`
Contains(text, sub) ==
    \E i \in 0..(Len(text) - Len(sub)) : SubSeq(text, i + 1, i + Len(sub)) = sub

-----------------------------------------------------------------------------
(* Document renderers: app.py 85-147, document_assets.py 78-112 *)

\* app.py 128: fifty em dashes
Rule == [i \in 1..50 |-> "<em dash>"]
MiddleDot == "<middle dot>"
Bullet == "<bullet>"

RECURSIVE docx_v2_experience(_)
docx_v2_experience_without_company(experience) ==
    IF Len(experience) = 0 THEN <<>>
    ELSE LET exp == Head(experience)
         IN  <<exp.title \o <<" ", "(">> \o exp.years \o <<")">>>>
             \o Lines(exp.summary)
             \o docx_v2_experience(Tail(experience))

\* lines 135-142: per entry "<title> | <company> (<years>)", then one
\* bullet paragraph per stripped, non-empty line of the summary
docx_v2_experience(experience) ==
    IF Len(experience) = 0 THEN <<>>
    ELSE LET exp == Head(experience)
         IN  <<exp.title \o <<" ", "|", " ">> \o exp.company \o <<" ", "(">> \o exp.years \o <<")">>>>
             \o Lines(exp.summary)
             \o docx_v2_experience(Tail(experience))

\* lines 119-147: the paragraphs of the document, one per line
generate_docx_v2(p) ==
    Join(<<Upper(p.v.name), p.v.email, Rule,
           <<"S", "U", "M", "M", "A", "R", "Y">>, Strip(p.v.summary),
           <<"K", "E", "Y", " ", "S", "K", "I", "L", "L", "S">>, Join(p.v.skills, <<",", " ">>),
           <<"E", "X", "P", "E", "R", "I", "E", "N", "C", "E">>>>
         \o docx_v2_experience(p.v.experience), <<"\n">>)

\* lines 107-114: per entry "<b><title></b> at <company>", the years, then
\* one bullet per stripped, non-empty line of the summary without middle dots
RECURSIVE pdf_v2_experience(_)
pdf_v2_experience(experience) ==
    IF Len(experience) = 0 THEN <<>>
    ELSE LET exp == Head(experience)
             bullet_items == Lines(Strip(Remove(exp.summary, MiddleDot)))
         IN  <<ParagraphText(exp.title \o <<" ", "a", "t", " ">> \o exp.company), ParagraphText(exp.years)>>
             \o [i \in 1..Len(bullet_items) |-> <<Bullet, " ">> \o ParagraphText(bullet_items[i])]
             \o pdf_v2_experience(Tail(experience))

\* lines 85-117: the paragraphs of the story, one per line
generate_pdf_v2(p) ==
    Join(<<ParagraphText(Upper(p.v.name)), ParagraphText(p.v.email),
           <<"S", "U", "M", "M", "A", "R", "Y">>, ParagraphText(Strip(p.v.summary)),
           <<"K", "E", "Y", " ", "S", "K", "I", "L", "L", "S">>, ParagraphText(<<"S", "k", "i", "l", "l", "s", ":", " ">> \o Join(p.v.skills, <<",", " ">>)),
           <<"W", "O", "R", "K", " ", "E", "X", "P", "E", "R", "I", "E", "N", "C", "E">>>>
         \o pdf_v2_experience(p.v.experience), <<"\n">>)

\* document_assets.py 103-106: per entry "<title> - <company>", the dates
\* and the summary as it is
RECURSIVE docx_experience(_)
docx_experience(experience) ==
    IF Len(experience) = 0 THEN <<>>
    ELSE LET exp == Head(experience)
         IN  <<exp.title \o <<" ", "-", " ">> \o exp.company, <<"D", "a", "t", "e", "s", ":", " ">> \o exp.years, exp.summary>>
             \o docx_experience(Tail(experience))

\* document_assets.py 91: the literal of the rule, an em dash read in the
\* wrong encoding: three characters, fifty times
MisdecodedRule ==
    [i \in 1..150 |-> IF i % 3 = 1 THEN "<a circumflex>"
                      ELSE IF i % 3 = 2 THEN "<euro sign>"
                      ELSE "<right double quotation mark>"]

\* document_assets.py 78-112
generate_docx(p) ==
    Join(<<p.v.name, p.v.email, MisdecodedRule,
           <<"S", "u", "m", "m", "a", "r", "y">>, p.v.summary,
           <<"K", "e", "y", " ", "S", "k", "i", "l", "l", "s">>, Join(p.v.skills, <<",", " ">>),
           <<"W", "o", "r", "k", " ", "E", "x", "p", "e", "r", "i", "e", "n", "c", "e">>>>
         \o docx_experience(p.v.experience), <<"\n">>)

-----------------------------------------------------------------------------
(* The dashboard: app.py 199-425 *)

Truthy(x) == ~ (x.t \in {"None", "null"}) /\ ~ (x.t \in {"str", "list"} /\ Len(x.v) = 0)
                /\ ~ (x.t = "obj" /\ DOMAIN x.v = {}) /\ ~ (x.t = "int" /\ x.v = 0)

NoUi == [msgs |-> {}, score |-> None, gaps |-> None, suggestions |-> None]

InterviewSettings(role, type, status) == [role |-> role, type |-> type, status |-> status]

\* os.getenv: unset, empty or set
EnvValues == {None, JStr(<<>>), JStr(<<"v">>)}

Texts == {"", "text"}
Frequencies == {"Daily", "Weekly", "Bi-Weekly", "Monthly"}
Roles == {"", "AI Engineer"}
QuestionTypes == {"Technical"}

NoCall == [fn |-> "none"]

\* no handler is waiting in an external call
NoRequest == [action |-> "none", input |-> "", type |-> ""]
Request(action, input, type) == [action |-> action, input |-> input, type |-> type]

\* the other modules, loaded and not called
ModulesIdle ==
    /\ SUPABASE_URL = None
    /\ SUPABASE_SERVICE_KEY = None
    /\ supabase = None
    /\ dbCall = NoCall
    /\ RESEND_API_KEY = None
    /\ alertCall = NoCall

\* no document rendered
RenderersIdle ==
    /\ profile = None
    /\ docx_bytes = None
    /\ pdf_bytes = None
    /\ docx_v1 = None

\* the session after the first script run (232, 358-361)
SessionStart ==
    /\ parsed_profile = None
    /\ interview_settings = InterviewSettings("", "", "ready")
    /\ chat_history = <<>>
    /\ chat_session = None
    /\ final_report_display = None
    /\ lastAction = "first run"
    /\ lastInput = ""
    /\ lastResponse = NoResponse
    /\ lastCalls = 0
    /\ inFlight = 0
    /\ pending = NoRequest
    /\ ui = NoUi
    /\ uncaught = FALSE
    /\ persistLog = <<>>

\* lines 56-65: no client without a key, or when genai.Client raised
get_gemini_client(key, ctor_raises) ==
    IF ~ Truthy(key) THEN None
    ELSE IF ctor_raises THEN None
    ELSE [t |-> "Client"]

\* lines 52-70: the client exists, or get_gemini_client returned None
Init ==
    /\ API_KEY \in EnvValues
    /\ client \in {get_gemini_client(API_KEY, r) : r \in BOOLEAN}
    /\ SessionStart
    /\ ModulesIdle
    /\ RenderersIdle

RunningWithoutStop == TRUE

\* line 69-70: st.stop() ends every run before the dashboard when no client
Running == Truthy(client)

\* a run that does not enter the block of line 234: it binds none of
\* profile, docx_bytes, pdf_bytes
NoRendering ==
    /\ profile' = None
    /\ docx_bytes' = None
    /\ pdf_bytes' = None
    /\ UNCHANGED docx_v1

\* lines 242-296, inside the Generate block: with a stored profile the run
\* shows the success message and builds both downloads from it
Rendering(stored) ==
    /\ profile' = stored
    /\ docx_bytes' = IF Truthy(stored) THEN JStr(generate_docx_v2(stored)) ELSE None
    /\ pdf_bytes' = IF Truthy(stored) THEN JStr(generate_pdf_v2(stored)) ELSE None
    /\ UNCHANGED docx_v1

NeverBlocked == FALSE

\* generate_content (lines 158, 168, 178, 190) and send_message (385, 401)
\* are synchronous calls made by the session's one script: while one is
\* out, the script stands in it and handles no other widget event
Blocked == inFlight > 0

\* a handler reaches its external call: the request is out
Issue(action, input, type) ==
    /\ inFlight' = inFlight + 1
    /\ pending' = Request(action, input, type)
    /\ lastResponse' = NoResponse
    /\ lastCalls' = 1

\* the call of the waiting handler returned resp, or raised
Returned(action, fn, resp) ==
    /\ pending.action = action
    /\ inFlight' = inFlight - 1
    /\ pending' = NoRequest
    /\ lastResponse' = resp
    /\ lastCalls' = ExternalCalls(fn, resp)
    /\ UNCHANGED <<lastAction, lastInput>>

\* a run that ends without reaching an external call
NoCallMade ==
    /\ UNCHANGED <<inFlight, pending>>
    /\ lastResponse' = NoResponse
    /\ lastCalls' = 0

\* lines 234-239: "Generate & Publish Portfolio", up to the end of the run
\* or to the call inside parse_resume_to_json (line 158)
GeneratePortfolio(resume_text_to_parse) ==
    /\ Running
    /\ ~ Blocked
    /\ lastAction' = "Generate"
    /\ lastInput' = resume_text_to_parse
    /\ IF resume_text_to_parse = ""
       THEN /\ NoCallMade
            /\ ui' = [NoUi EXCEPT !.msgs = {"provide content"} \cup
                        (IF Truthy(parsed_profile) THEN {"portfolio generated"} ELSE {})]
            /\ Rendering(parsed_profile)
       ELSE /\ Issue("Generate", resume_text_to_parse, "")
            /\ ui' = NoUi
            /\ NoRendering
    /\ uncaught' = FALSE
    /\ UNCHANGED <<parsed_profile, interview_settings, chat_history, chat_session,
                   final_report_display, persistLog, client, API_KEY>>
    /\ UNCHANGED <<dbVars, alertVars>>

\* lines 158-161 and 239-298: the call returned, the result is stored and,
\* when it is a profile, shown and rendered
GeneratePortfolioReturns(resp) ==
    /\ Returned("Generate", "parse_resume_to_json", resp)
    /\ parsed_profile' = parse_resume_to_json(resp)
    /\ ui' = [NoUi EXCEPT !.msgs =
                IF Truthy(parse_resume_to_json(resp))
                THEN {"portfolio generated"} ELSE {"AI Parsing Error"}]
    /\ Rendering(parsed_profile')
    /\ uncaught' = FALSE
    /\ UNCHANGED <<interview_settings, chat_history, chat_session,
                   final_report_display, persistLog, client, API_KEY>>
    /\ UNCHANGED <<dbVars, alertVars>>

\* a widget change that no handler reacts to (typing, a select box, a download)
Rerun ==
    /\ Running
    /\ ~ Blocked
    /\ lastAction' = "Rerun"
    /\ lastInput' = ""
    /\ NoCallMade
    /\ ui' = NoUi
    /\ uncaught' = FALSE
    /\ UNCHANGED <<parsed_profile, interview_settings, chat_history, chat_session,
                   final_report_display, persistLog, client, API_KEY>>
    /\ NoRendering
    /\ UNCHANGED <<dbVars, alertVars>>

GenerateCoverLetterUngated(job_description) ==
    /\ Running
    /\ ~ Blocked
    /\ lastAction' = "CoverLetter"
    /\ lastInput' = job_description
    /\ IF ~ Truthy(parsed_profile)
       THEN /\ NoCallMade
            /\ ui' = [NoUi EXCEPT !.msgs = {"run Generate first"}]
       ELSE /\ Issue("CoverLetter", job_description, "")
            /\ ui' = NoUi
    /\ uncaught' = FALSE
    /\ UNCHANGED <<parsed_profile, interview_settings, chat_history, chat_session,
                   final_report_display, persistLog, client, API_KEY>>
    /\ NoRendering
    /\ UNCHANGED <<dbVars, alertVars>>

\* lines 310-315: "Generate Cover Letter", up to the end of the run or to
\* the call inside generate_cover_letter (line 168)
GenerateCoverLetter(job_description) ==
    /\ Running
    /\ ~ Blocked
    /\ lastAction' = "CoverLetter"
    /\ lastInput' = job_description
    /\ IF ~ Truthy(parsed_profile)
       THEN /\ NoCallMade
            /\ ui' = [NoUi EXCEPT !.msgs = {"run Generate first"}]
       ELSE IF job_description = ""
       THEN /\ NoCallMade
            /\ ui' = [NoUi EXCEPT !.msgs = {"paste the Job Description"}]
       ELSE /\ Issue("CoverLetter", job_description, "")
            /\ ui' = NoUi
    /\ uncaught' = FALSE
    /\ UNCHANGED <<parsed_profile, interview_settings, chat_history, chat_session,
                   final_report_display, persistLog, client, API_KEY>>
    /\ NoRendering
    /\ UNCHANGED <<dbVars, alertVars>>

\* lines 168-171 and 315-321: the call returned, the letter or the failure
\* is shown
GenerateCoverLetterReturns(resp) ==
    /\ Returned("CoverLetter", "generate_cover_letter", resp)
    /\ ui' = [NoUi EXCEPT !.msgs =
                IF Truthy(generate_cover_letter(resp))
                THEN {"Cover letter complete"}
                ELSE {"Cover letter generation failed"}]
    /\ uncaught' = FALSE
    /\ UNCHANGED <<parsed_profile, interview_settings, chat_history, chat_session,
                   final_report_display, persistLog, client, API_KEY>>
    /\ NoRendering
    /\ UNCHANGED <<dbVars, alertVars>>

\* lines 339-341: dict.get(key, default)
Get(d, key, default) == IF key \in DOMAIN d.v THEN d.v[key] ELSE default

\* lines 331-336: "Analyze Profile & Get Score", up to the end of the run or
\* to the call inside generate_optimization_report (line 178)
AnalyzeProfile(target_job_description) ==
    /\ Running
    /\ ~ Blocked
    /\ lastAction' = "Optimizer"
    /\ lastInput' = target_job_description
    /\ IF ~ Truthy(parsed_profile)
       THEN /\ NoCallMade
            /\ ui' = [NoUi EXCEPT !.msgs = {"run Generate first"}]
       ELSE IF target_job_description = ""
       THEN /\ NoCallMade
            /\ ui' = [NoUi EXCEPT !.msgs = {"paste the Job Description"}]
       ELSE /\ Issue("Optimizer", target_job_description, "")
            /\ ui' = NoUi
    /\ uncaught' = FALSE
    /\ UNCHANGED <<parsed_profile, interview_settings, chat_history, chat_session,
                   final_report_display, persistLog, client, API_KEY>>
    /\ NoRendering
    /\ UNCHANGED <<dbVars, alertVars>>

\* lines 178-181 and 336-350: the call returned, the report is shown as it
\* is, with defaults for what it lacks, or the failure is shown
AnalyzeProfileReturns(resp) ==
    /\ Returned("Optimizer", "generate_optimization_report", resp)
    /\ LET optimization_result == generate_optimization_report(resp)
       IN  ui' = IF Truthy(optimization_result)
                 THEN [msgs |-> {"Analysis complete"},
                       score |-> Get(optimization_result, "match_score", JInt(0)),
                       gaps |-> Get(optimization_result, "keyword_gaps", JList(<<JStr(NA)>>)),
                       suggestions |-> Get(optimization_result, "suggestions", JList(<<JStr(NA)>>))]
                 ELSE [NoUi EXCEPT !.msgs = {"Optimization analysis failed"}]
    /\ uncaught' = FALSE
    /\ UNCHANGED <<parsed_profile, interview_settings, chat_history, chat_session,
                   final_report_display, persistLog, client, API_KEY>>
    /\ NoRendering
    /\ UNCHANGED <<dbVars, alertVars>>

StartNewClearsSession ==
    /\ Running
    /\ ~ Blocked
    /\ interview_settings.status # "in_progress"
    /\ Truthy(final_report_display)
    /\ lastAction' = "StartNew"
    /\ lastInput' = ""
    /\ final_report_display' = None
    /\ parsed_profile' = None
    /\ interview_settings' = InterviewSettings("", "", "ready")
    /\ NoCallMade
    /\ ui' = NoUi
    /\ uncaught' = FALSE
    /\ UNCHANGED <<chat_history, chat_session, persistLog, client, API_KEY>>
    /\ NoRendering
    /\ UNCHANGED <<dbVars, alertVars>>

\* lines 367-374: "Start New Interview Session", offered with a final report
StartNewInterviewSession ==
    /\ Running
    /\ ~ Blocked
    /\ interview_settings.status # "in_progress"
    /\ Truthy(final_report_display)
    /\ lastAction' = "StartNew"
    /\ lastInput' = ""
    /\ final_report_display' = None
    /\ interview_settings' = InterviewSettings("", "", "ready")
    /\ NoCallMade
    /\ ui' = NoUi
    /\ uncaught' = FALSE
    /\ UNCHANGED <<parsed_profile, chat_history, chat_session, persistLog, client, API_KEY>>
    /\ NoRendering
    /\ UNCHANGED <<dbVars, alertVars>>

\* lines 376-385: "Start Interview Session", offered without a final report,
\* up to the end of the run or to send_message (line 385); the chat session
\* is created before the call (line 383)
StartInterviewSession(target_role, question_type) ==
    /\ Running
    /\ ~ Blocked
    /\ interview_settings.status # "in_progress"
    /\ ~ Truthy(final_report_display)
    /\ lastAction' = "Start"
    /\ lastInput' = target_role
    /\ IF IsNone(parsed_profile)
       THEN /\ ui' = [NoUi EXCEPT !.msgs = {"generate your profile first"}]
            /\ NoCallMade
            /\ UNCHANGED chat_session
       ELSE IF target_role = ""
       THEN /\ ui' = [NoUi EXCEPT !.msgs = {"enter a Target Role"}]
            /\ NoCallMade
            /\ UNCHANGED chat_session
       ELSE /\ chat_session' = [t |-> "Chat"]
            /\ Issue("Start", target_role, question_type)
            /\ ui' = NoUi
    /\ uncaught' = FALSE
    /\ UNCHANGED <<parsed_profile, interview_settings, chat_history,
                   final_report_display, persistLog, client, API_KEY>>
    /\ NoRendering
    /\ UNCHANGED <<dbVars, alertVars>>

\* lines 385-388: send_message raised and ended the run, or it returned and
\* the history, the role, the type and the status are written
StartInterviewSessionReturns(resp) ==
    /\ Returned("Start", "send_message", resp)
    /\ ui' = NoUi
    /\ IF resp.t = "raise"
       THEN /\ uncaught' = TRUE
            /\ UNCHANGED <<interview_settings, chat_history>>
       ELSE /\ uncaught' = FALSE
            /\ chat_history' = <<[role |-> "model", text |-> resp]>>
            /\ interview_settings' =
                   InterviewSettings(pending.input, pending.type, "in_progress")
    /\ UNCHANGED <<parsed_profile, chat_session, final_report_display,
                   persistLog, client, API_KEY>>
    /\ NoRendering
    /\ UNCHANGED <<dbVars, alertVars>>

\* lines 396-401: a chat submission while the interview is in progress: the
\* user turn is appended (line 397), then send_message is called (line 401)
ChatInput(prompt) ==
    /\ Running
    /\ ~ Blocked
    /\ interview_settings.status = "in_progress"
    /\ Len(chat_history) + 2 <= MaxTurns
    /\ lastAction' = "Chat"
    /\ lastInput' = prompt
    /\ chat_history' = Append(chat_history, [role |-> "user", text |-> prompt])
    /\ Issue("Chat", prompt, "")
    /\ ui' = NoUi
    /\ uncaught' = FALSE
    /\ UNCHANGED <<parsed_profile, interview_settings, chat_session,
                   final_report_display, persistLog, client, API_KEY>>
    /\ NoRendering
    /\ UNCHANGED <<dbVars, alertVars>>

\* lines 401-403: send_message raised and ended the run, or it returned and
\* the model turn is appended
ChatInputReturns(resp) ==
    /\ Returned("Chat", "send_message", resp)
    /\ ui' = NoUi
    /\ IF resp.t = "raise"
       THEN /\ uncaught' = TRUE
            /\ UNCHANGED chat_history
       ELSE /\ uncaught' = FALSE
            /\ chat_history' = Append(chat_history, [role |-> "model", text |-> resp])
    /\ UNCHANGED <<parsed_profile, interview_settings, chat_session,
                   final_report_display, persistLog, client, API_KEY>>
    /\ NoRendering
    /\ UNCHANGED <<dbVars, alertVars>>

\* lines 405-409: "Finish Interview & Get Full Feedback": the status is set
\* (line 406), the profile is serialized (line 409), then the call inside
\* generate_final_feedback (line 190) is made
FinishInterview ==
    /\ Running
    /\ ~ Blocked
    /\ interview_settings.status = "in_progress"
    /\ lastAction' = "Finish"
    /\ lastInput' = ""
    /\ ui' = NoUi
    /\ interview_settings' = [interview_settings EXCEPT !.status = "finished"]
    /\ IF IsNone(parsed_profile)
       THEN \* None.model_dump_json() raised at line 409
            /\ NoCallMade
            /\ uncaught' = TRUE
       ELSE /\ Issue("Finish", "", "")
            /\ uncaught' = FALSE
    /\ UNCHANGED <<parsed_profile, chat_history, chat_session, final_report_display,
                   persistLog, client, API_KEY>>
    /\ NoRendering
    /\ UNCHANGED <<dbVars, alertVars>>

\* lines 190-193 and 409-412: the report, or the fallback text when the
\* call raised, is stored and the settings are reset with status finished
FinishInterviewReturns(resp) ==
    /\ Returned("Finish", "generate_final_feedback", resp)
    /\ ui' = NoUi
    /\ final_report_display' = generate_final_feedback(resp)
    /\ interview_settings' = InterviewSettings("", "", "finished")
    /\ uncaught' = FALSE
    /\ UNCHANGED <<parsed_profile, chat_history, chat_session, persistLog, client, API_KEY>>
    /\ NoRendering
    /\ UNCHANGED <<dbVars, alertVars>>

\* lines 420-425: "Save Job Alert Preferences", offered with a profile
SaveJobAlertPreferences(job_keywords, frequency) ==
    /\ Running
    /\ ~ Blocked
    /\ Truthy(parsed_profile)
    /\ lastAction' = "SaveAlerts"
    /\ lastInput' = job_keywords
    /\ NoCallMade
    /\ ui' = [NoUi EXCEPT !.msgs = {"Preferences saved"}]
    /\ uncaught' = FALSE
    /\ UNCHANGED <<parsed_profile, interview_settings, chat_history, chat_session,
                   final_report_display, persistLog, client, API_KEY>>
    /\ NoRendering
    /\ UNCHANGED <<dbVars, alertVars>>

Next ==
    \/ \E t \in Texts : GeneratePortfolio(t)
    \/ \E resp \in ResumeResponses : GeneratePortfolioReturns(resp)
    \/ Rerun
    \/ \E t \in Texts : GenerateCoverLetter(t)
    \/ \E resp \in TextResponses : GenerateCoverLetterReturns(resp)
    \/ \E t \in Texts : AnalyzeProfile(t)
    \/ \E resp \in OptimizationResponses : AnalyzeProfileReturns(resp)
    \/ StartNewInterviewSession
    \/ \E r \in Roles, q \in QuestionTypes : StartInterviewSession(r, q)
    \/ \E resp \in ChatResponses : StartInterviewSessionReturns(resp)
    \/ ChatInput("text")
    \/ \E resp \in ChatResponses : ChatInputReturns(resp)
    \/ FinishInterview
    \/ \E resp \in TextResponses : FinishInterviewReturns(resp)
    \/ \E k \in Texts, f \in Frequencies : SaveJobAlertPreferences(k, f)

vars == <<sessionVars, dbVars, alertVars, renderVars>>

Spec == Init /\ [][Next]_vars

-----------------------------------------------------------------------------
(* db_interface.py *)

UserIds == {"u1", "u2"}

\* lines 15-25: the client exists only if both settings are non-empty and
\* create_client did not raise
InitDb ==
    /\ API_KEY = JStr(<<"v">>)
    /\ client = [t |-> "Client"]
    /\ SessionStart
    /\ SUPABASE_URL \in EnvValues
    /\ SUPABASE_SERVICE_KEY \in EnvValues
    /\ supabase \in IF Truthy(SUPABASE_URL) /\ Truthy(SUPABASE_SERVICE_KEY)
                    THEN {[t |-> "Client"], None}
                    ELSE {None}
    /\ dbCall = NoCall
    /\ RESEND_API_KEY = None
    /\ alertCall = NoCall
    /\ RenderersIdle

save_always_true(sb) == [result |-> TRUE, printed |-> TRUE, raised |-> FALSE]

\* lines 33-36 and 40-43: the body shared by both placeholder functions
save_placeholder(sb) ==
    IF ~ Truthy(sb)
    THEN [result |-> FALSE, printed |-> FALSE, raised |-> FALSE]
    ELSE [result |-> TRUE, printed |-> TRUE, raised |-> FALSE]

\* lines 31-36
save_user_profile(user_id, profile_json) ==
    /\ dbCall' = [fn |-> "save_user_profile", user_id |-> user_id,
                  payload |-> profile_json, out |-> save_placeholder(supabase)]
    /\ UNCHANGED <<SUPABASE_URL, SUPABASE_SERVICE_KEY, supabase>>
    /\ UNCHANGED <<sessionVars, alertVars, renderVars>>

\* lines 38-43
save_user_alert_preferences(user_id, keywords, frequency) ==
    /\ dbCall' = [fn |-> "save_user_alert_preferences", user_id |-> user_id,
                  payload |-> <<keywords, frequency>>, out |-> save_placeholder(supabase)]
    /\ UNCHANGED <<SUPABASE_URL, SUPABASE_SERVICE_KEY, supabase>>
    /\ UNCHANGED <<sessionVars, alertVars, renderVars>>

NextDb ==
    \/ \E u \in UserIds, p \in {JObj(<<>>), JObj(FullResume)} : save_user_profile(u, p)
    \/ \E u \in UserIds, k \in Texts, f \in Frequencies : save_user_alert_preferences(u, k, f)

SpecDb == InitDb /\ [][NextDb]_vars

-----------------------------------------------------------------------------
(* alert_sender.py *)

JobKeys == {"title", "company_name", "match_score", "perfect_fit_reason", "source_url"}

FullJob ==
    [title |-> JStr(Engineer), company_name |-> JStr(Acme), match_score |-> JInt(90),
     perfect_fit_reason |-> JStr(Tip), source_url |-> JStr(<<"u">>)]

\* a complete job item, one lacking a single key, or an empty one
JobItems ==
    {JObj([k \in JobKeys \ S |-> FullJob[k]]) :
        S \in {{}} \cup {{k} : k \in JobKeys} \cup {JobKeys}}

JobLists == UNION {[1..n -> JobItems] : n \in 0..MaxJobs}

Header == <<"Your Personalized Job Alerts Are Ready!">>

\* lines 10-24: the header, then per job its five values in the order the
\* template reads them; job[key] raises KeyError for a key the item lacks
RECURSIVE format_jobs_for_email(_)
format_jobs_for_email(top_jobs) ==
    IF Len(top_jobs) = 0 THEN [raised |-> FALSE, html |-> Header]
    ELSE LET job == top_jobs[Len(top_jobs)]
             before == format_jobs_for_email(SubSeq(top_jobs, 1, Len(top_jobs) - 1))
         IN  IF before.raised THEN before
             ELSE IF \E k \in JobKeys : k \notin DOMAIN job.v
             THEN [raised |-> TRUE, html |-> <<>>]
             ELSE [raised |-> FALSE,
                   html |-> before.html \o <<job.v["title"], job.v["company_name"],
                                             job.v["match_score"],
                                             job.v["perfect_fit_reason"],
                                             job.v["source_url"]>>]

send_formats_outside_try(key, recipient_email, top_jobs, ctor_raises, send_raises) ==
    IF ~ Truthy(key) THEN [result |-> FALSE, raised |-> FALSE, sends |-> 0]
    ELSE IF format_jobs_for_email(top_jobs).raised
    THEN [result |-> None, raised |-> TRUE, sends |-> 0]
    ELSE IF ctor_raises THEN [result |-> FALSE, raised |-> FALSE, sends |-> 0]
    ELSE IF send_raises THEN [result |-> FALSE, raised |-> FALSE, sends |-> 1]
    ELSE [result |-> TRUE, raised |-> FALSE, sends |-> 1]

\* lines 26-51: without a key nothing is tried; the Resend constructor,
\* the formatting and the send are all inside one try / except Exception
send_job_alert_email(key, recipient_email, top_jobs, ctor_raises, send_raises) ==
    IF ~ Truthy(key) THEN [result |-> FALSE, raised |-> FALSE, sends |-> 0]
    ELSE IF ctor_raises THEN [result |-> FALSE, raised |-> FALSE, sends |-> 0]
    ELSE IF format_jobs_for_email(top_jobs).raised
    THEN [result |-> FALSE, raised |-> FALSE, sends |-> 0]
    ELSE IF send_raises THEN [result |-> FALSE, raised |-> FALSE, sends |-> 1]
    ELSE [result |-> TRUE, raised |-> FALSE, sends |-> 1]

InitAlert ==
    /\ API_KEY = JStr(<<"v">>)
    /\ client = [t |-> "Client"]
    /\ SessionStart
    /\ SUPABASE_URL = None
    /\ SUPABASE_SERVICE_KEY = None
    /\ supabase = None
    /\ dbCall = NoCall
    /\ RESEND_API_KEY \in EnvValues
    /\ alertCall = NoCall
    /\ RenderersIdle

SendJobAlertEmail(recipient_email, top_jobs, ctor_raises, send_raises) ==
    /\ alertCall' = [fn |-> "send_job_alert_email", top_jobs |-> top_jobs,
                     ctor_raises |-> ctor_raises, send_raises |-> send_raises,
                     out |-> send_job_alert_email(RESEND_API_KEY, recipient_email,
                                                  top_jobs, ctor_raises, send_raises)]
    /\ UNCHANGED RESEND_API_KEY
    /\ UNCHANGED <<sessionVars, dbVars, renderVars>>

NextAlert ==
    \E jobs \in JobLists, c \in BOOLEAN, f \in BOOLEAN :
        SendJobAlertEmail("a@x", jobs, c, f)

SpecAlert == InitAlert /\ [][NextAlert]_vars

-----------------------------------------------------------------------------
(* The renderers on generated records *)

\* validated records: any text is a valid str, the empty one included
NameChars == {"a", "B", " "}
ShortTexts == UNION {[1..n -> NameChars] : n \in 0..MaxNameLen}
Names == ShortTexts \cup {AliceSmith}
Companies == {Acme, <<"a", " ", " ", "B">>}
Summaries == {SummaryText, <<"o", "k">>}

\* complete payloads of a resume extraction with those texts
RenderObjects ==
    {JObj([name |-> JStr(n), email |-> JStr(AliceEmail), summary |-> JStr(s),
           skills |-> JList(<<JStr(Python), JStr(SQL), JStr(React)>>),
           experience |-> JList(e)]) :
        n \in Names, s \in Summaries,
        e \in {<<>>} \cup {<<JObj([title |-> JStr(Engineer), company |-> JStr(c),
                                   years |-> JStr(Years), summary |-> JStr(SummaryText)])>> :
                                c \in Companies}}

\* the records parse_resume_to_json builds from them
Profiles == {ResumeProfile(x) : x \in RenderObjects}

\* the records document_assets.generate_docx is called with
AssetProfiles == {p \in Profiles : p.v.name = AliceSmith /\ p.v.summary = SummaryText}

\* the dashboard with a client and an empty session (app.py 52-70, 232)
InitRender ==
    /\ API_KEY = JStr(<<"v">>)
    /\ client = get_gemini_client(API_KEY, FALSE)
    /\ SessionStart
    /\ ModulesIdle
    /\ RenderersIdle

\* document_assets.py 78-112, called by an importer of the module; app.py
\* does not import it
RenderDocxV1(p) ==
    /\ docx_v1' = JStr(generate_docx(p))
    /\ UNCHANGED <<profile, docx_bytes, pdf_bytes>>
    /\ UNCHANGED <<sessionVars, dbVars, alertVars>>

\* Generate runs of the dashboard (app.py 234-298) whose answer is a complete
\* payload, Generate runs without text, and calls of generate_docx
NextRender ==
    \/ \E t \in Texts : GeneratePortfolio(t)
    \/ \E resp \in RenderObjects : GeneratePortfolioReturns(resp)
    \/ \E p \in AssetProfiles : RenderDocxV1(p)

SpecRender == InitRender /\ [][NextRender]_vars

-----------------------------------------------------------------------------
(* Properties of the dashboard session *)

\* C1: when "Generate & Publish Portfolio" fails (parse_resume_to_json gave
\* None and the parsing error was shown), the profile stored before the
\* action is still the stored profile.
C1_FailedGenerateKeepsProfile ==
    [][("AI Parsing Error" \in ui'.msgs) => parsed_profile' = parsed_profile]_vars

\* some required field of the profile, or of one of its experience
\* entries, is not in the payload
LacksRequiredField(p) ==
    \/ \E f \in {"name", "email", "summary", "skills", "experience"} : f \notin DOMAIN p.v
    \/ /\ p.v["experience"].t = "list"
       /\ \E i \in 1..Len(p.v["experience"].v) :
            /\ p.v["experience"].v[i].t = "obj"
            /\ \E g \in {"title", "company", "years", "summary"} :
                    g \notin DOMAIN p.v["experience"].v[i].v

PartiallyPopulated(p) ==
    \/ DOMAIN p.v # {"name", "email", "summary", "skills", "experience"}
    \/ \E i \in 1..Len(p.v["experience"]) :
            DOMAIN p.v["experience"][i] # {"title", "company", "years", "summary"}

\* C2: a Generate action whose payload lacks a required field of the profile
\* or of a nested experience entry stores no profile, whatever else the
\* payload holds, and no stored profile is partially populated.
C2_RequiredFieldRejection ==
    /\ (lastAction = "Generate" /\ lastResponse.t = "obj" /\ LacksRequiredField(lastResponse))
            => IsNone(parsed_profile)
    /\ ~ IsNone(parsed_profile) => ~ PartiallyPopulated(parsed_profile)

C2_Witness ==
    /\ lastAction = "Generate"
    /\ lastResponse.t = "obj"
    /\ DOMAIN lastResponse.v = {"name", "email", "summary", "skills", "experience"}
    /\ LacksRequiredField(lastResponse)
    /\ IsNone(parsed_profile)

\* C3: the optimizer shows a score only if it is an integer from 0 to 100;
\* payloads with match_score -1 and 101 are rejected.
C3_ScoreWithinBounds ==
    (lastAction = "Optimizer" /\ "Analysis complete" \in ui.msgs)
        => (ui.score.t = "int" /\ 0 <= ui.score.v /\ ui.score.v <= 100)

\* C4: an optimization payload missing match_score, keyword_gaps or
\* suggestions is reported as a failed analysis, never shown as a success
\* with defaults filled in.
C4_MissingFieldRejected ==
    (/\ lastAction = "Optimizer"
     /\ lastResponse.t = "obj"
     /\ \E f \in {"match_score", "keyword_gaps", "suggestions"} : f \notin DOMAIN lastResponse.v)
        => ("Optimization analysis failed" \in ui.msgs /\ IsNone(ui.score))

\* C5: pressing "Save Job Alert Preferences" hands the keywords and the
\* frequency to the persistence collaborator, and the confirmation is shown
\* only if that call returned true.
C5_AlertPreferencesPersisted ==
    lastAction = "SaveAlerts"
        => /\ Len(persistLog) > 0
           /\ ("Preferences saved" \in ui.msgs => persistLog[Len(persistLog)].result = TRUE)

ButtonActions ==
    {"Generate", "CoverLetter", "Optimizer", "Start", "StartNew", "Chat", "Finish", "SaveAlerts"}

GuardMessages ==
    {"provide content", "run Generate first", "paste the Job Description",
     "generate your profile first", "enter a Target Role"}

C10_ProfileFrame ==
    [][/\ parsed_profile' # parsed_profile => lastAction' = "Generate"
       /\ lastAction' \in {"CoverLetter", "Optimizer", "SaveAlerts", "Rerun"} =>
            UNCHANGED <<parsed_profile, interview_settings, chat_history,
                        chat_session, final_report_display>>]_vars

C10_Witness ==
    /\ lastAction = "Finish"
    /\ ~ IsNone(parsed_profile)
    /\ interview_settings.status = "finished"
    /\ Truthy(final_report_display)
    /\ Len(chat_history) >= 3

-----------------------------------------------------------------------------
(* Properties of db_interface.py *)

DbUnconfigured ==
    IsNone(SUPABASE_URL) \/ IsNone(SUPABASE_SERVICE_KEY) \/ IsNone(supabase)

\* C7: with the persistence collaborator unconfigured (a setting absent, or
\* the global client still None), save_user_profile and
\* save_user_alert_preferences return false for every input and never raise;
\* they return true only with a client; no call changes the module's state.
C7_CollaboratorDegradation ==
    /\ [](dbCall.fn # "none" =>
            /\ ~ dbCall.out.raised
            /\ dbCall.out.result \in BOOLEAN
            /\ DbUnconfigured => (dbCall.out.result = FALSE /\ ~ dbCall.out.printed)
            /\ dbCall.out.result = TRUE => supabase.t = "Client")
    /\ [][UNCHANGED <<SUPABASE_URL, SUPABASE_SERVICE_KEY, supabase, sessionVars>>]_vars

C7_Witness ==
    /\ dbCall.fn = "save_user_alert_preferences"
    /\ Truthy(SUPABASE_URL)
    /\ Truthy(SUPABASE_SERVICE_KEY)
    /\ IsNone(supabase)
    /\ dbCall.out.result = FALSE

-----------------------------------------------------------------------------
(* Properties of alert_sender.py *)

SomeItemLacksKey(top_jobs) ==
    \E i \in 1..Len(top_jobs) :
        \E k \in {"title", "company_name", "match_score", "perfect_fit_reason", "source_url"} :
            k \notin DOMAIN top_jobs[i].v

\* C8: send_job_alert_email always returns a boolean and never raises; it
\* returns false without a send attempt when RESEND_API_KEY is missing, and
\* false when the formatting or the send fails; it returns true only after
\* a send that did not fail.
C8_NotificationNeverRaises ==
    alertCall.fn # "none" =>
        /\ ~ alertCall.out.raised
        /\ alertCall.out.result \in BOOLEAN
        /\ ~ Truthy(RESEND_API_KEY) => (alertCall.out.result = FALSE /\ alertCall.out.sends = 0)
        /\ SomeItemLacksKey(alertCall.top_jobs) => alertCall.out.result = FALSE
        /\ (alertCall.ctor_raises \/ alertCall.send_raises) => alertCall.out.result = FALSE
        /\ alertCall.out.result = TRUE =>
                (alertCall.out.sends = 1 /\ ~ alertCall.send_raises)

C8_Witness ==
    /\ alertCall.fn = "send_job_alert_email"
    /\ Truthy(RESEND_API_KEY)
    /\ ~ alertCall.ctor_raises
    /\ Len(alertCall.top_jobs) = 2
    /\ SomeItemLacksKey(alertCall.top_jobs)
    /\ alertCall.out.result = FALSE

-----------------------------------------------------------------------------
(* Properties of the renderers *)

Rendered == ~ IsNone(docx_bytes) /\ ~ IsNone(pdf_bytes)

\* a text whose words are one space apart, so that only its case can change
Plain1(x) == ParagraphText(x) = x

\* C6 as stated: both dashboard exports contain the name exactly as it is
\* in the record ("Alice Smith") and the company of every entry ("Acme").
C6_NameAsInRecord ==
    (Rendered /\ Plain1(profile.v.name)) =>
        /\ Contains(docx_bytes.v, profile.v.name)
        /\ Contains(pdf_bytes.v, profile.v.name)
        /\ \A i \in 1..Len(profile.v.experience) :
                Plain1(profile.v.experience[i].company) =>
                    /\ Contains(docx_bytes.v, profile.v.experience[i].company)
                    /\ Contains(pdf_bytes.v, profile.v.experience[i].company)

ALICE_SMITH == <<"A", "L", "I", "C", "E", " ", "S", "M", "I", "T", "H">>

\* C6 amended: both dashboard exports contain the name in upper case
\* ("ALICE SMITH" for "Alice Smith") and the company of every entry
\* ("Acme"), the PDF with each run of white space set as one space; the
\* Word export holds the company exactly as it is in the record.
C6_NameUpperCased ==
    Rendered =>
        /\ Contains(docx_bytes.v, Upper(profile.v.name))
        /\ Contains(pdf_bytes.v, ParagraphText(Upper(profile.v.name)))
        /\ profile.v.name = AliceSmith =>
                /\ Contains(docx_bytes.v, ALICE_SMITH)
                /\ Contains(pdf_bytes.v, ALICE_SMITH)
                /\ ~ Contains(docx_bytes.v, AliceSmith)
                /\ ~ Contains(pdf_bytes.v, AliceSmith)
        /\ \A i \in 1..Len(profile.v.experience) :
                /\ Contains(docx_bytes.v, profile.v.experience[i].company)
                /\ Contains(pdf_bytes.v, ParagraphText(profile.v.experience[i].company))
                /\ profile.v.experience[i].company = Acme =>
                        Contains(pdf_bytes.v, <<"A", "c", "m", "e">>)

C6_Witness ==
    /\ Rendered
    /\ profile.v.name = AliceSmith
    /\ Len(profile.v.experience) = 1
    /\ profile.v.experience[1].company = Acme
    /\ Contains(docx_bytes.v, ALICE_SMITH)

-----------------------------------------------------------------------------
(* Properties of the dashboard session, continued *)

AllText(x) == x.t = "list" /\ \A i \in 1..Len(x.v) : x.v[i].t = "str"

\* every required field is there and has its declared type
WellTypedProfile(p) ==
    /\ DOMAIN p.v = {"name", "email", "summary", "skills", "experience"}
    /\ p.v["name"].t = "str" /\ p.v["email"].t = "str" /\ p.v["summary"].t = "str"
    /\ AllText(p.v["skills"])
    /\ p.v["experience"].t = "list"
    /\ \A i \in 1..Len(p.v["experience"].v) :
            /\ p.v["experience"].v[i].t = "obj"
            /\ DOMAIN p.v["experience"].v[i].v = {"title", "company", "years", "summary"}
            /\ \A g \in {"title", "company", "years", "summary"} :
                    p.v["experience"].v[i].v[g].t = "str"

WellTypedReport(p) ==
    /\ DOMAIN p.v = {"match_score", "keyword_gaps", "suggestions"}
    /\ p.v["match_score"].t = "int"
    /\ p.v["match_score"].v >= 0 /\ p.v["match_score"].v <= 100
    /\ AllText(p.v["keyword_gaps"])
    /\ AllText(p.v["suggestions"])

\* C11: a payload with every required field present and well typed is
\* accepted whatever the length of its lists: the profile is stored with
\* the skills it came with (3 items, none, 13), and an optimization answer
\* is shown with its keyword gaps and suggestions whatever their number.
C11_CardinalityAdvisory ==
    /\ (lastAction = "Generate" /\ lastResponse.t = "obj" /\ WellTypedProfile(lastResponse))
            => /\ ~ IsNone(parsed_profile)
               /\ Len(parsed_profile.v.skills) = Len(lastResponse.v["skills"].v)
    /\ (lastAction = "Optimizer" /\ lastResponse.t = "obj" /\ WellTypedReport(lastResponse))
            => /\ "Analysis complete" \in ui.msgs
               /\ ui.gaps = lastResponse.v["keyword_gaps"]
               /\ ui.suggestions = lastResponse.v["suggestions"]

C11_Witness ==
    /\ lastAction = "Generate"
    /\ lastResponse.t = "obj"
    /\ WellTypedProfile(lastResponse)
    /\ Len(lastResponse.v["skills"].v) = 3
    /\ ~ IsNone(parsed_profile)
    /\ Len(parsed_profile.v.skills) = 3

\* C12: without a generative client (GEMINI_API_KEY unset or empty, or
\* genai.Client raised) the script stops before the dashboard: no handler
\* has run, no external call was made and no session field was written.
C12_FailFast ==
    /\ ~ Truthy(API_KEY) => IsNone(client)
    /\ IsNone(client) =>
        /\ lastAction = "first run"
        /\ lastCalls = 0
        /\ lastResponse = NoResponse
        /\ IsNone(parsed_profile)
        /\ interview_settings = InterviewSettings("", "", "ready")
        /\ chat_history = <<>>
        /\ IsNone(chat_session)
        /\ IsNone(final_report_display)
        /\ persistLog = <<>>

C12_Witness ==
    /\ Truthy(API_KEY)
    /\ IsNone(client)
    /\ lastAction = "first run"

\* C13: whenever the interview is in progress a profile is stored, so that
\* "Finish Interview" can serialize it.
C13_ProfileWhileInProgress ==
    interview_settings.status = "in_progress" => ~ IsNone(parsed_profile)

\* C14: the status is one of ready, in_progress, finished and changes only
\* ready -> in_progress (Start Interview with a profile and a target role),
\* in_progress -> finished (Finish Interview) and finished -> ready (Start
\* New Interview Session); a Start that fails leaves it as it was.
C14_StatusTransitions ==
    [][/\ interview_settings'.status \in {"ready", "in_progress", "finished"}
       /\ interview_settings'.status # interview_settings.status =>
            \/ /\ interview_settings.status = "ready"
               /\ interview_settings'.status = "in_progress"
               /\ lastAction' = "Start"
               /\ ~ IsNone(parsed_profile)
               /\ interview_settings'.role # ""
            \/ /\ interview_settings.status = "in_progress"
               /\ interview_settings'.status = "finished"
               /\ lastAction' = "Finish"
            \/ /\ interview_settings.status = "finished"
               /\ interview_settings'.status = "ready"
               /\ lastAction' = "StartNew"
       /\ (lastAction' = "Start" /\ (uncaught' \/ ui'.msgs # {})) =>
            interview_settings'.status = interview_settings.status]_vars

\* C15: while the interview is in progress the chat history is not empty,
\* starts with a model turn and alternates model, user, model, ...
C15_TurnsAlternate ==
    interview_settings.status = "in_progress" =>
        /\ Len(chat_history) >= 1
        /\ \A i \in 1..Len(chat_history) :
                chat_history[i].role = (IF i % 2 = 1 THEN "model" ELSE "user")

\* C16: a finished interview always has a non-empty final report stored
\* (the report or the fallback text), once the Finish run has ended.
C16_FinishedHasReport ==
    (interview_settings.status = "finished" /\ inFlight = 0)
        => Truthy(final_report_display)

\* C17: the cover letter, optimizer and Start Interview actions call the
\* external capability only with a profile stored and their text input
\* (job description, target job description, target role) not empty;
\* otherwise they make no call and change no session field.
C17_DerivedActionsGated ==
    [][lastAction' \in {"CoverLetter", "Optimizer", "Start"} =>
        /\ lastCalls' > 0 => (~ IsNone(parsed_profile) /\ lastInput' # "")
        /\ (IsNone(parsed_profile) \/ lastInput' = "") =>
            /\ lastCalls' = 0
            /\ lastResponse' = NoResponse
            /\ UNCHANGED <<parsed_profile, interview_settings, chat_history,
                           chat_session, final_report_display>>]_vars

C17_Witness ==
    /\ lastAction = "Start"
    /\ lastInput = ""
    /\ ~ IsNone(parsed_profile)
    /\ lastCalls = 0
    /\ IsNone(chat_session)
    /\ interview_settings.status = "ready"

====
